---- MODULE Spec2Model ----
(***************************************************************************)
(* A model of the video background removal service: one request through    *)
(* VideoService.processVideo, with the calls it makes into FfmpegService   *)
(* (findDominantChromaColor, extractFrame, getVideoDuration,               *)
(* analyzeFrameColors, getSettings, processChromaKey, runFfmpegCommand).   *)
(*                                                                         *)
(* Strings that the code inspects or converts (hex colours, the probe's    *)
(* standard output) are sequences of one-character strings.  Similarity    *)
(* and blend are kept in hundredths (0.3 is 30).  A Partial<...> object is *)
(* a function whose domain is the set of keys that are present.            *)
(***************************************************************************)
EXTENDS Integers, Sequences, FiniteSets, TLC

(***************************************************************************)
(* Bounds of the model.                                                    *)
(***************************************************************************)
\* Most 'data' events delivered to one child process before it closes.
MaxChunks == 2

(***************************************************************************)
(* Program constants.                                                      *)
(***************************************************************************)
quantizeFactor == 8
DarkLimit == 30
LightLimit == 240
FallbackDuration == 5
MaxChannel == 255
Percentages == <<5, 25, 50>>

GREEN_SCREEN_SETTINGS ==
    [color |-> <<"0", "0", "F", "F", "0", "0">>, similarity |-> 1, blend |-> 8]

BLUE_SCREEN_SETTINGS ==
    [color |-> <<"0", "0", "0", "0", "F", "F">>, similarity |-> 30, blend |-> 10]

(***************************************************************************)
(* Small helpers.                                                          *)
(***************************************************************************)
Min2(a, b) == IF a < b THEN a ELSE b

Max2(a, b) == IF a > b THEN a ELSE b

\* The empty object {} / an absent optional.
Empty == <<>>

Has(obj, k) == k \in DOMAIN obj

\* { ...base, ...over }: the keys of both, over's value where over has the key.
Spread(base, over) ==
    [k \in (DOMAIN base) \cup (DOMAIN over) |->
        IF k \in DOMAIN over THEN over[k] ELSE base[k]]

(***************************************************************************)
(* rgbToHex: clamp, Number.toString(16), padStart(2, '0'), toUpperCase.    *)
(***************************************************************************)
HexDigits ==
    <<"0", "1", "2", "3", "4", "5", "6", "7", "8", "9", "a", "b", "c", "d", "e", "f">>

\* n.toString(16) for 0 <= n <= 255
toString16(n) ==
    IF n < 16
    THEN <<HexDigits[n + 1]>>
    ELSE <<HexDigits[(n \div 16) + 1], HexDigits[(n % 16) + 1]>>

padStart2(s) == IF Len(s) < 2 THEN <<"0">> \o s ELSE s

\* Mutant: the channel wrapped into a byte, not clamped.
toHexWrap(n) == padStart2(toString16(n % (MaxChannel + 1)))

toHex(n) == padStart2(toString16(Min2(MaxChannel, Max2(0, n))))

UpperOf(c) ==
    CASE c = "a" -> "A" [] c = "b" -> "B" [] c = "c" -> "C"
      [] c = "d" -> "D" [] c = "e" -> "E" [] c = "f" -> "F"
      [] OTHER -> c

toUpperCase(s) == [i \in 1..Len(s) |-> UpperOf(s[i])]

rgbToHex(rgb) == toUpperCase(toHex(rgb.r) \o toHex(rgb.g) \o toHex(rgb.b))

(***************************************************************************)
(* getSettings.                                                            *)
(***************************************************************************)
\* Mutant: the spread the other way round, the preset over the overrides.
getSettingsPresetWins(colorType, overrides) ==
    Spread(overrides,
           IF colorType = "green" THEN GREEN_SCREEN_SETTINGS ELSE BLUE_SCREEN_SETTINGS)

getSettings(colorType, overrides) ==
    LET baseSettings ==
            IF colorType = "green" THEN GREEN_SCREEN_SETTINGS ELSE BLUE_SCREEN_SETTINGS
    IN  Spread(baseSettings, overrides)

(***************************************************************************)
(* analyzeFrameColors on the decoded pixels of a frame.  The colour map is *)
(* the sequence of its entries in insertion order.                         *)
(***************************************************************************)
\* Mutant: no quantization.
QuantizeNone(v) == v

Quantize(v) == (v \div quantizeFactor) * quantizeFactor

\* Mutant: a pixel is skipped when any channel is dark or any is light.
SkippedPixelAnyChannel(p) ==
    \/ (p.r < DarkLimit \/ p.g < DarkLimit \/ p.b < DarkLimit)
    \/ (p.r > LightLimit \/ p.g > LightLimit \/ p.b > LightLimit)

\* Mutant: the dark test is left out.
SkippedPixelLightOnly(p) ==
    p.r > LightLimit /\ p.g > LightLimit /\ p.b > LightLimit

SkippedPixel(p) ==
    \/ (p.r < DarkLimit /\ p.g < DarkLimit /\ p.b < DarkLimit)
    \/ (p.r > LightLimit /\ p.g > LightLimit /\ p.b > LightLimit)

CountPixel(colorMap, p) ==
    LET key == [r |-> Quantize(p.r), g |-> Quantize(p.g), b |-> Quantize(p.b)]
    IN  IF \E i \in 1..Len(colorMap) : colorMap[i].rgb = key
        THEN [i \in 1..Len(colorMap) |->
                 IF colorMap[i].rgb = key
                 THEN [colorMap[i] EXCEPT !.count = @ + 1]
                 ELSE colorMap[i]]
        ELSE Append(colorMap, [rgb |-> key, count |-> 1])

RECURSIVE ScanPixels(_, _)
ScanPixels(colorMap, pixels) ==
    IF pixels = <<>>
    THEN colorMap
    ELSE ScanPixels(
             IF SkippedPixel(Head(pixels)) THEN colorMap ELSE CountPixel(colorMap, Head(pixels)),
             Tail(pixels))

\* Array.prototype.sort with (a, b) => b.count - a.count: stable, descending.
RECURSIVE InsertByCount(_, _)
InsertByCount(sorted, e) ==
    IF sorted = <<>>
    THEN <<e>>
    ELSE IF Head(sorted).count >= e.count
         THEN <<Head(sorted)>> \o InsertByCount(Tail(sorted), e)
         ELSE <<e>> \o sorted

RECURSIVE SortByCount(_)
SortByCount(entries) ==
    IF entries = <<>>
    THEN <<>>
    ELSE InsertByCount(SortByCount(SubSeq(entries, 1, Len(entries) - 1)),
                       entries[Len(entries)])

\* The result of analyzeFrameColors: <<rgb>> or <<>> for null.
analyzeFrameColors(pixels) ==
    LET sorted == SortByCount(ScanPixels(<<>>, pixels))
    IN  IF sorted = <<>> THEN <<>> ELSE <<sorted[1].rgb>>

(***************************************************************************)
(* String.prototype.trim and parseFloat on the probe's standard output.    *)
(* A number is [nan, neg, mant, fracLen]: (-1)^neg * mant / 10^fracLen,    *)
(* with no trailing zero in the fraction.  The alphabet of the modelled    *)
(* outputs has no exponent and no "Infinity".                              *)
(***************************************************************************)
WhitespaceChars == {" ", "\n"}

DigitChars == {"0", "1", "2", "3", "4", "5", "6", "7", "8", "9"}

DigitVal(c) == CHOOSE d \in 0..9 : HexDigits[d + 1] = c

RECURSIVE trimStart(_)
trimStart(s) ==
    IF s # <<>> /\ Head(s) \in WhitespaceChars THEN trimStart(Tail(s)) ELSE s

RECURSIVE trimEnd(_)
trimEnd(s) ==
    IF s # <<>> /\ s[Len(s)] \in WhitespaceChars
    THEN trimEnd(SubSeq(s, 1, Len(s) - 1))
    ELSE s

trim(s) == trimEnd(trimStart(s))

RECURSIVE TakeDigits(_)
TakeDigits(s) ==
    IF s # <<>> /\ Head(s) \in DigitChars
    THEN <<Head(s)>> \o TakeDigits(Tail(s))
    ELSE <<>>

RECURSIVE DigitsValue(_)
DigitsValue(ds) ==
    IF ds = <<>>
    THEN 0
    ELSE DigitsValue(SubSeq(ds, 1, Len(ds) - 1)) * 10 + DigitVal(ds[Len(ds)])

RECURSIVE Normalize(_)
Normalize(n) ==
    IF n.fracLen > 0 /\ n.mant % 10 = 0
    THEN Normalize([n EXCEPT !.mant = @ \div 10, !.fracLen = @ - 1])
    ELSE n

NaN == [nan |-> TRUE, neg |-> FALSE, mant |-> 0, fracLen |-> 0]

Num(k) == [nan |-> FALSE, neg |-> FALSE, mant |-> k, fracLen |-> 0]

\* The longest prefix of the form [+-]? digits (. digits)?, with a digit in it.
parseFloat(s) ==
    LET t == trimStart(s)
        signed == t # <<>> /\ Head(t) \in {"-", "+"}
        u == IF signed THEN Tail(t) ELSE t
        ip == TakeDigits(u)
        r == SubSeq(u, Len(ip) + 1, Len(u))
        fp == IF r # <<>> /\ Head(r) = "." THEN TakeDigits(Tail(r)) ELSE <<>>
    IN  IF ip = <<>> /\ fp = <<>>
        THEN NaN
        ELSE Normalize([nan |-> FALSE, neg |-> signed /\ Head(t) = "-",
                        mant |-> DigitsValue(ip \o fp), fracLen |-> Len(fp)])

\* JavaScript truthiness of a number: neither NaN nor (plus or minus) zero.
Truthy(n) == ~n.nan /\ n.mant # 0

IsPositive(n) == ~n.nan /\ ~n.neg /\ n.mant > 0

RECURSIVE Pow10(_)
Pow10(k) == IF k = 0 THEN 1 ELSE 10 * Pow10(k - 1)

\* ((duration * percentage) / 100).toFixed(2), in hundredths: [neg, hundredths]
Timestamp(duration, percentage) ==
    LET scale == Pow10(duration.fracLen)
    IN  [neg |-> duration.neg,
         hundredths |-> (duration.mant * percentage + (scale \div 2)) \div scale]

(***************************************************************************)
(* The inputs of the model.                                                *)
(***************************************************************************)
\* An optional field k: absent, or present with one of vals.
Opt(k, vals) == {Empty} \cup {(k :> v) : v \in vals}

LowerColor == <<"a", "1", "B", "2", "c", "3">>

\* Request bodies that pass validation: colorType, and each optional field
\* either absent or with one of the given values.
DtoSetOf(urls, autos, colors, sims, blends, maskSims, maskBlends) ==
    { ct @@ u @@ a @@ c @@ s @@ b @@ ms @@ mb :
        ct \in {("colorType" :> t) : t \in {"green", "blue"}},
        u  \in Opt("videoUrl", urls),
        a  \in Opt("autoDetectColor", autos),
        c  \in Opt("color", colors),
        s  \in Opt("similarity", sims),
        b  \in Opt("blend", blends),
        ms \in Opt("mask_similarity", maskSims),
        mb \in Opt("mask_blend", maskBlends) }

\* Values of videoUrl that pass @IsUrl, which does not require a protocol.
UrlWithProtocol == "https://example.com/video.mp4"

UrlWithoutProtocol == "example.com/video.mp4"

\* new URL(url) returns for an absolute URL and throws for any other string.
ParsesAsUrl(url) == url = UrlWithProtocol

\* The requests of the pipeline's specification.
DtoSet == DtoSetOf({UrlWithProtocol, UrlWithoutProtocol}, BOOLEAN, {LowerColor}, {30}, {}, {50}, {})

\* The requests of the settings resolution's specification, and the colours
\* detection may have left in detectedColor (<<>>: none).
PairDtoSet == DtoSetOf({}, {TRUE}, {LowerColor}, {30, 50}, {10}, {50}, {20})

PairDetected == { <<>>, <<"0", "0", "F", "8", "0", "0">> }

Px(r, g, b) == [r |-> r, g |-> g, b |-> b]

\* Most pixels of a frame given to analyzeFrameColors on its own.
MaxPixels == 4

\* Pixels at the limits of the dark and the light test and of the buckets.
PixelSet ==
    { Px(10, 10, 10), Px(29, 29, 29), Px(29, 30, 29), Px(241, 241, 241), Px(241, 240, 241),
      Px(0, 255, 0), Px(3, 250, 5), Px(0, 0, 255) }

RECURSIVE SeqsUpTo(_, _)
SeqsUpTo(S, n) ==
    IF n = 0
    THEN {<<>>}
    ELSE LET shorter == SeqsUpTo(S, n - 1)
         IN  shorter \cup {Append(q, x) : q \in {t \in shorter : Len(t) = n - 1}, x \in S}

\* The decoded frames given to analyzeFrameColors on its own.
PixelFrames == SeqsUpTo(PixelSet, MaxPixels)

\* Channel values given to rgbToHex on its own, outside 0..255 too.
ChannelSet == {-300, -1, 0, 9, 10, 15, 16, 171, 255, 256, 1000}

\* What sharp finds in a frame file: pixels, or a file it cannot decode.
Frames ==
    { [decodable |-> TRUE,  pixels |-> <<Px(0, 255, 0), Px(3, 250, 5), Px(200, 10, 10)>>],
      [decodable |-> TRUE,  pixels |-> <<Px(0, 0, 255), Px(10, 10, 10), Px(0, 0, 250)>>],
      [decodable |-> TRUE,  pixels |-> <<Px(200, 10, 10)>>],
      [decodable |-> TRUE,  pixels |-> <<Px(10, 10, 10), Px(250, 250, 250)>>],
      [decodable |-> FALSE, pixels |-> <<>>] }

\* 'data' chunks of ffprobe's standard output.
ProbeChunks ==
    { <<"1", "2", ".", "5", "\n">>, <<"-", "1", ".", "5">>, <<"0">>, <<"N", "/", "A">> }

\* 'data' chunks of ffmpeg's standard error.
StderrChunks == { <<"n", "o", " ", "s", "u", "c", "h", " ", "f", "i", "l", "t", "e", "r">> }

\* Exit statuses of a child process that was spawned.
ExitCodes == {0, 1}

FramePathOf(i) == <<"frame1", "frame2", "frame3">>[i]

UploadPath == "upload"

DownloadPath == "download"

\* Most requests in flight at the same time.
MaxRequests == 2

Requests == 1..MaxRequests

\* Values of uuidv4(), shortened: strings of one length over one alphabet.
SessionIds == { <<"1", "a">>, <<"1", "b">>, <<"a", "1">>, <<"b", "b">> }

OutputDir == <<"o", "u", "t", "p", "u", "t", "s">>

MaskSuffix == <<"_", "m", "a", "s", "k", ".", "w", "e", "b", "m">>

ResultSuffix == <<"_", "r", "e", "s", "u", "l", "t", ".", "w", "e", "b", "m">>

\* path.join(dir, name)
pathJoin(dir, name) == dir \o <<"/">> \o name

\* Mutant: the file name without the session id.
OutputNameNoId(id, suffix) == suffix

\* `${id}_mask.webm`, `${id}_result.webm`
OutputName(id, suffix) == id \o suffix

maskOutput(id) == pathJoin(OutputDir, OutputName(id, MaskSuffix))

resultOutput(id) == pathJoin(OutputDir, OutputName(id, ResultSuffix))

MaskOutput == "sessionId_mask.webm"

ResultOutput == "sessionId_result.webm"

(***************************************************************************)
(* Errors.                                                                 *)
(***************************************************************************)
\* new Error(`FFmpeg exited with code ${code}: ${stderr}`)
FfmpegExitError(code, stderr) == [name |-> "Error", code |-> code, stderr |-> stderr]

\* The error of the child process's 'error' event, passed on as it is.
SpawnError == [name |-> "SpawnError", errno |-> "ENOENT"]

BadRequestException(message) == [name |-> "BadRequestException", message |-> message]

FsError(syscall) == [name |-> "FsError", syscall |-> syscall]

DecodeError == [name |-> "SharpError"]

\* The TypeError of new URL(...)
InvalidUrlError == [name |-> "TypeError", code |-> "ERR_INVALID_URL"]

(***************************************************************************)
(* State.                                                                  *)
(***************************************************************************)
VARIABLES
    pc,                    \* where the request's async function stands
    dto, uploadedFile,     \* processVideo's arguments
    inputPath, tempInputPath,
    files,                 \* the paths that exist on disk
    unlinked,              \* history: the paths fs.unlink was called on
    child,                 \* the child process awaited, if any
    promise,               \* the promise of runFfmpegCommand / getVideoDuration
    settleCalls,           \* history: resolve/reject calls on that promise
    sample,                \* index in Percentages of findDominantChromaColor's loop
    framePath, framePaths, colorCounts, bestColor,
    votes,                 \* history: what each analysed frame yielded (<<>>: nothing)
    detectedColor,
    resultSettings, maskSettings,
    resultChromaSettings, maskChromaSettings,
    result,                \* processChromaKey's ProcessedVideoResult
    error,                 \* the exception in flight: <<>> or <<e>>
    outcome,               \* how processVideo ended
    pair,                  \* two requests' settings, resolved side by side
    calc,                  \* the last call of a pure function, with its result
    sessions               \* concurrent requests: their session ids and output files

inputVars == <<dto, uploadedFile, inputPath, tempInputPath>>

fileVars == <<files, unlinked>>

childVars == <<child, promise, settleCalls>>

detectVars ==
    <<sample, framePath, framePaths, colorCounts, bestColor, votes, detectedColor>>

encodeVars == <<resultSettings, maskSettings, resultChromaSettings, maskChromaSettings, result>>

pipelineVars ==
    <<pc, inputVars, fileVars, childVars, detectVars, encodeVars, error, outcome>>

vars == <<pipelineVars, pair, calc, sessions>>

NoChild ==
    [kind |-> "none", phase |-> "none", spawnOk |-> FALSE, text |-> <<>>, n |-> 0,
     code |-> <<>>, out |-> "none", args |-> Empty]

Pending == [state |-> "pending", value |-> Empty]

NoPair == [resolved |-> FALSE]

NoCall == [op |-> "none"]

\* No request has started and no output file has been written.
NoSessions ==
    [req |-> [r \in Requests |-> [pc |-> "idle", sessionId |-> <<>>]], writes |-> {}]

Init ==
    /\ pair = NoPair
    /\ calc = NoCall
    /\ sessions = NoSessions
    /\ pc = "idle"
    /\ dto = ("colorType" :> "green")
    /\ uploadedFile = FALSE
    /\ inputPath = "none"
    /\ tempInputPath = "none"
    /\ files = {}
    /\ unlinked = {}
    /\ child = NoChild
    /\ promise = Pending
    /\ settleCalls = 0
    /\ sample = 1
    /\ framePath = "none"
    /\ framePaths = <<>>
    /\ colorCounts = <<>>
    /\ bestColor = <<>>
    /\ votes = <<>>
    /\ detectedColor = <<>>
    /\ resultSettings = Empty
    /\ maskSettings = Empty
    /\ resultChromaSettings = Empty
    /\ maskChromaSettings = Empty
    /\ result = Empty
    /\ error = <<>>
    /\ outcome = [status |-> "pending"]

(***************************************************************************)
(* Child processes and the promises that wrap them.                        *)
(***************************************************************************)
\* resolve/reject of a promise: only the first call settles it.
settle(p, state, value) ==
    IF p.state = "pending" THEN [state |-> state, value |-> value] ELSE p

\* spawn(...) inside new Promise(...): the handlers are attached at once.
Spawn(kind, out, args, ok) ==
    /\ child' = [kind |-> kind, phase |-> IF ok THEN "running" ELSE "spawnFailed",
                 spawnOk |-> ok, text |-> <<>>, n |-> 0, code |-> <<>>,
                 out |-> out, args |-> args]
    /\ promise' = Pending
    /\ settleCalls' = 0

\* Mutant: the exit status is not looked at.
ffmpegOnCloseAnyCode(p, code, stderr) == settle(p, "resolved", Empty)

\* runFfmpegCommand's process.on('close', ...)
ffmpegOnClose(p, code, stderr) ==
    IF code = 0
    THEN settle(p, "resolved", Empty)
    ELSE settle(p, "rejected", FfmpegExitError(code, stderr))

\* runFfmpegCommand's process.on('error', ...)
ffmpegOnError(p, err) == settle(p, "rejected", err)

\* getVideoDuration's ffprobe.on('close', ...)
probeOnClose(p, code, output) ==
    IF code = 0
    THEN LET parsed == parseFloat(trim(output))
         IN  settle(p, "resolved", IF Truthy(parsed) THEN parsed ELSE Num(FallbackDuration))
    ELSE settle(p, "resolved", Num(FallbackDuration))

\* getVideoDuration's ffprobe.on('error', ...)
probeOnError(p) == settle(p, "resolved", Num(FallbackDuration))

\* stdout.on('data') of ffprobe, stderr.on('data') of ffmpeg: text += data
ChildData ==
    /\ child.phase = "running"
    /\ child.n < MaxChunks
    /\ \E chunk \in (IF child.kind = "probe" THEN ProbeChunks ELSE StderrChunks) :
           child' = [child EXCEPT !.text = @ \o chunk, !.n = @ + 1]
    /\ UNCHANGED <<pair, calc, sessions, pc, inputVars, fileVars, promise, settleCalls,
                   detectVars, encodeVars, error, outcome>>

\* A spawn that failed: the 'error' event.
ChildError ==
    /\ child.phase = "spawnFailed"
    /\ child' = [child EXCEPT !.phase = "errored"]
    /\ promise' = IF child.kind = "probe"
                  THEN probeOnError(promise)
                  ELSE ffmpegOnError(promise, SpawnError)
    /\ settleCalls' = settleCalls + 1
    /\ UNCHANGED <<pair, calc, sessions, pc, inputVars, fileVars, detectVars, encodeVars, error, outcome>>

\* The 'close' event: with the exit status of a process that ran (which may or
\* may not have written its output file), with a negative status after 'error'.
ChildClose ==
    /\ child.phase \in {"running", "errored"}
    /\ \E code \in (IF child.phase = "running" THEN ExitCodes ELSE {-2}),
          wrote \in (IF child.phase = "running" /\ child.kind # "probe"
                     THEN BOOLEAN ELSE {FALSE}) :
          /\ child' = [child EXCEPT !.phase = "closed", !.code = <<code>>]
          /\ promise' = IF child.kind = "probe"
                        THEN probeOnClose(promise, code, child.text)
                        ELSE ffmpegOnClose(promise, code, child.text)
          /\ files' = IF wrote THEN files \cup {child.out} ELSE files
    /\ settleCalls' = settleCalls + 1
    /\ UNCHANGED <<pair, calc, sessions, pc, inputVars, unlinked, detectVars, encodeVars, error, outcome>>

\* The promise and its process are dropped once the awaiting function has
\* taken the result.
Reaped ==
    /\ child' = NoChild
    /\ promise' = Pending
    /\ settleCalls' = 0

\* The awaiting function resumes once the promise is settled; the events of the
\* process it wrapped have then been delivered.
Awaited == promise.state # "pending" /\ child.phase = "closed"

(***************************************************************************)
(* VideoService.processVideo, up to the resolution of the input.           *)
(***************************************************************************)
\* if (dto.autoDetectColor): where the function goes once it has its input
AfterInput(d) ==
    IF Has(d, "autoDetectColor") /\ d.autoDetectColor THEN "extractFrame" ELSE "buildSettings"

\* The call, with the upload (if any) already staged on disk by the controller.
processVideo ==
    /\ pc = "idle"
    /\ \E d \in DtoSet, up \in BOOLEAN :
          /\ dto' = d
          /\ uploadedFile' = up
          /\ files' = IF up THEN files \cup {UploadPath} ELSE files
          /\ IF up
             THEN /\ inputPath' = UploadPath
                  /\ pc' = AfterInput(d)
                  /\ error' = error
             ELSE IF Has(d, "videoUrl")
                  THEN /\ inputPath' = inputPath
                       /\ pc' = "downloadVideo"
                       /\ error' = error
                  ELSE /\ inputPath' = inputPath
                       /\ pc' = "finally"
                       /\ error' = <<BadRequestException("Either video file or videoUrl must be provided")>>
    /\ UNCHANGED <<pair, calc, sessions, tempInputPath, unlinked, childVars, detectVars, encodeVars, outcome>>

\* downloadVideo: mkdir and new URL(url), then (inside its try) the GET and the
\* writeFile.  A writeFile that fails may leave the file it opened.
downloadVideo ==
    /\ pc = "downloadVideo"
    /\ \E how \in (IF ParsesAsUrl(dto.videoUrl)
                    THEN {"ok", "mkdirFailed", "getFailed", "writeFailed"}
                    ELSE {"mkdirFailed", "urlInvalid"}),
          left \in BOOLEAN :
          /\ (how # "writeFailed") => ~left
          /\ CASE how = "ok" ->
                     /\ files' = files \cup {DownloadPath}
                     /\ tempInputPath' = DownloadPath
                     /\ inputPath' = DownloadPath
                     /\ pc' = AfterInput(dto)
                     /\ error' = error
               [] how = "mkdirFailed" ->
                     /\ error' = <<FsError("mkdir")>>
                     /\ pc' = "finally"
                     /\ UNCHANGED <<files, tempInputPath, inputPath>>
               [] how = "urlInvalid" ->
                     /\ error' = <<InvalidUrlError>>
                     /\ pc' = "finally"
                     /\ UNCHANGED <<files, tempInputPath, inputPath>>
               [] OTHER ->
                     /\ files' = IF left THEN files \cup {DownloadPath} ELSE files
                     /\ error' = <<BadRequestException("Failed to download video from URL")>>
                     /\ pc' = "finally"
                     /\ UNCHANGED <<tempInputPath, inputPath>>
    /\ UNCHANGED <<pair, calc, sessions, dto, uploadedFile, unlinked, childVars, detectVars, encodeVars, outcome>>

(***************************************************************************)
(* FfmpegService.findDominantChromaColor.                                  *)
(***************************************************************************)
\* extractFrame, to its first await: the frame's path, and ffprobe spawned.
extractFrame ==
    /\ pc = "extractFrame"
    /\ framePath' = FramePathOf(sample)
    /\ \E ok \in BOOLEAN : Spawn("probe", "none", Empty, ok)
    /\ pc' = "getVideoDuration"
    /\ UNCHANGED <<pair, calc, sessions, inputVars, fileVars, sample, framePaths, colorCounts, bestColor,
                   votes, detectedColor, encodeVars, error, outcome>>

\* extractFrame after getVideoDuration: the timestamp, and ffmpeg spawned.
extractFrameRun ==
    /\ pc = "getVideoDuration"
    /\ Awaited
    /\ LET duration == promise.value
           timestamp == Timestamp(duration, Percentages[sample])
       IN  \E ok \in BOOLEAN : Spawn("extract", framePath, timestamp, ok)
    /\ pc' = "runExtract"
    /\ UNCHANGED <<pair, calc, sessions, inputVars, fileVars, detectVars, encodeVars, error, outcome>>

\* colorCounts.set(hex, (colorCounts.get(hex) ?? 0) + 1), in insertion order
CountHex(counts, hex) ==
    IF \E i \in 1..Len(counts) : counts[i].hex = hex
    THEN [i \in 1..Len(counts) |->
             IF counts[i].hex = hex THEN [counts[i] EXCEPT !.count = @ + 1] ELSE counts[i]]
    ELSE Append(counts, [hex |-> hex, count |-> 1])

\* Mutant: >= for >, the last entry with the largest count.
RECURSIVE BestOfLast(_, _, _)
BestOfLast(counts, best, bestCount) ==
    IF counts = <<>>
    THEN best
    ELSE IF Head(counts).count >= bestCount
         THEN BestOfLast(Tail(counts), Head(counts).hex, Head(counts).count)
         ELSE BestOfLast(Tail(counts), best, bestCount)

\* The loop over colorCounts: the first entry with the largest count.
RECURSIVE BestOf(_, _, _)
BestOf(counts, best, bestCount) ==
    IF counts = <<>>
    THEN best
    ELSE IF Head(counts).count > bestCount
         THEN BestOf(Tail(counts), Head(counts).hex, Head(counts).count)
         ELSE BestOf(Tail(counts), best, bestCount)

\* After extractFrame: its frame is recorded, or its error leaves the loop.
extractFrameDone ==
    /\ pc = "runExtract"
    /\ Awaited
    /\ IF promise.state = "resolved"
       THEN /\ framePaths' = Append(framePaths, framePath)
            /\ pc' = "analyzeFrameColors"
            /\ error' = error
       ELSE /\ error' = <<promise.value>>
            /\ pc' = "cleanupFrames"
            /\ framePaths' = framePaths
    /\ Reaped
    /\ UNCHANGED <<pair, calc, sessions, inputVars, fileVars, sample, framePath, colorCounts,
                   bestColor, votes, detectedColor, encodeVars, outcome>>

\* analyzeFrameColors on the frame, the tally, and the end of the loop body;
\* after the third sample, the choice of the best colour.
analyzeFrame ==
    /\ pc = "analyzeFrameColors"
    /\ \E frame \in Frames :
          IF framePath \in files /\ frame.decodable
          THEN LET color == analyzeFrameColors(frame.pixels)
                   counts == IF color # <<>>
                             THEN CountHex(colorCounts, rgbToHex(color[1]))
                             ELSE colorCounts
               IN  /\ colorCounts' = counts
                   /\ votes' = Append(votes, IF color # <<>> THEN rgbToHex(color[1]) ELSE <<>>)
                   /\ error' = error
                   /\ IF sample < Len(Percentages)
                      THEN /\ sample' = sample + 1
                           /\ pc' = "extractFrame"
                           /\ bestColor' = bestColor
                      ELSE /\ sample' = sample
                           /\ pc' = "cleanupFrames"
                           /\ bestColor' = BestOf(counts, <<>>, 0)
          ELSE /\ error' = <<DecodeError>>
               /\ pc' = "cleanupFrames"
               /\ UNCHANGED <<colorCounts, sample, bestColor, votes>>
    /\ UNCHANGED <<pair, calc, sessions, inputVars, fileVars, childVars, framePath, framePaths,
                   detectedColor, encodeVars, outcome>>

\* fs.unlink(path): the path is gone if it succeeds; the failure is caught.
Unlink(path) ==
    /\ unlinked' = unlinked \cup {path}
    /\ \E ok \in BOOLEAN : files' = IF ok THEN files \ {path} ELSE files

\* The finally block: one unlink per recorded frame path.
cleanupFrame ==
    /\ pc = "cleanupFrames"
    /\ framePaths # <<>>
    /\ Unlink(Head(framePaths))
    /\ framePaths' = Tail(framePaths)
    /\ UNCHANGED <<pair, calc, sessions, pc, inputVars, childVars, sample, framePath, colorCounts,
                   bestColor, votes, detectedColor, encodeVars, error, outcome>>

\* Mutant: an error of the detection is dropped and the request goes on.
detectionDoneSwallow ==
    /\ pc = "cleanupFrames"
    /\ framePaths = <<>>
    /\ detectedColor' = IF error = <<>> THEN bestColor ELSE detectedColor
    /\ pc' = "buildSettings"
    /\ error' = <<>>
    /\ sample' = 1
    /\ framePath' = "none"
    /\ colorCounts' = <<>>
    /\ bestColor' = <<>>
    /\ votes' = <<>>
    /\ UNCHANGED <<pair, calc, sessions, inputVars, fileVars, childVars, framePaths, encodeVars, outcome>>

\* Mutant: a detection that found no colour fails the request.
detectionDoneStrict ==
    /\ pc = "cleanupFrames"
    /\ framePaths = <<>>
    /\ IF error = <<>> /\ bestColor # <<>>
       THEN /\ detectedColor' = bestColor
            /\ pc' = "buildSettings"
            /\ error' = error
       ELSE /\ detectedColor' = detectedColor
            /\ pc' = "finally"
            /\ error' = IF error = <<>> THEN <<DecodeError>> ELSE error
    /\ sample' = 1
    /\ framePath' = "none"
    /\ colorCounts' = <<>>
    /\ bestColor' = <<>>
    /\ votes' = <<>>
    /\ UNCHANGED <<pair, calc, sessions, inputVars, fileVars, childVars, framePaths, encodeVars, outcome>>

\* Mutant: after a failed sample, the best colour of the samples so far is
\* returned.
detectionDonePartial ==
    /\ pc = "cleanupFrames"
    /\ framePaths = <<>>
    /\ detectedColor' = IF error = <<>> THEN bestColor ELSE BestOf(colorCounts, <<>>, 0)
    /\ pc' = "buildSettings"
    /\ error' = <<>>
    /\ sample' = 1
    /\ framePath' = "none"
    /\ colorCounts' = <<>>
    /\ bestColor' = <<>>
    /\ votes' = <<>>
    /\ UNCHANGED <<pair, calc, sessions, inputVars, fileVars, childVars, framePaths, encodeVars, outcome>>

\* findDominantChromaColor returns to processVideo, or throws through it.
detectionDone ==
    /\ pc = "cleanupFrames"
    /\ framePaths = <<>>
    /\ IF error = <<>>
       THEN /\ detectedColor' = bestColor
            /\ pc' = "buildSettings"
       ELSE /\ detectedColor' = detectedColor
            /\ pc' = "finally"
    /\ sample' = 1
    /\ framePath' = "none"
    /\ colorCounts' = <<>>
    /\ bestColor' = <<>>
    /\ votes' = <<>>
    /\ UNCHANGED <<pair, calc, sessions, inputVars, fileVars, childVars, framePaths, encodeVars, error, outcome>>

(***************************************************************************)
(* processVideo's override sets, and FfmpegService.processChromaKey.       *)
(***************************************************************************)
\* Mutant: the request's colour before the detected one.
ColorOverrideUserFirst(d, detected) ==
    IF Has(d, "color")
    THEN ("color" :> toUpperCase(d.color))
    ELSE IF detected # <<>> THEN ("color" :> detected) ELSE Empty

\* Mutant: the request's colour as it was sent, not in upper case.
ColorOverrideRaw(d, detected) ==
    IF detected # <<>>
    THEN ("color" :> detected)
    ELSE IF Has(d, "color") THEN ("color" :> d.color) ELSE Empty

\* Priority: auto-detected color > user-provided color > default
ColorOverride(d, detected) ==
    IF detected # <<>>
    THEN ("color" :> detected)
    ELSE IF Has(d, "color") THEN ("color" :> toUpperCase(d.color)) ELSE Empty

\* The field `to` of the override set, from the request's field `from`.
FieldOverride(d, from, to) == IF Has(d, from) THEN (to :> d[from]) ELSE Empty

BuildResultSettings(d, detected) ==
    FieldOverride(d, "blend", "blend")
        @@ FieldOverride(d, "similarity", "similarity")
        @@ ColorOverride(d, detected)

\* Mutant: the mask falls back on the result pass's similarity.
BuildMaskSettingsLeaky(d, detected) ==
    FieldOverride(d, "mask_blend", "blend")
        @@ FieldOverride(d, "mask_similarity", "similarity")
        @@ FieldOverride(d, "similarity", "similarity")
        @@ ColorOverride(d, detected)

BuildMaskSettings(d, detected) ==
    FieldOverride(d, "mask_blend", "blend")
        @@ FieldOverride(d, "mask_similarity", "similarity")
        @@ ColorOverride(d, detected)

\* The two override sets, processChromaKey's two getSettings calls, its mkdir,
\* and the mask pass spawned.
buildSettings ==
    /\ pc = "buildSettings"
    /\ resultSettings' = BuildResultSettings(dto, detectedColor)
    /\ maskSettings' = BuildMaskSettings(dto, detectedColor)
    /\ resultChromaSettings' = getSettings(dto.colorType, resultSettings')
    /\ maskChromaSettings' = getSettings(dto.colorType, maskSettings')
    /\ \E mkdirOk \in BOOLEAN :
          IF mkdirOk
          THEN /\ \E ok \in BOOLEAN :
                     Spawn("mask", MaskOutput, [input |-> inputPath, filter |-> maskChromaSettings'], ok)
               /\ pc' = "maskPass"
               /\ error' = error
          ELSE /\ error' = <<FsError("mkdir")>>
               /\ pc' = "finally"
               /\ UNCHANGED childVars
    /\ UNCHANGED <<pair, calc, sessions, inputVars, fileVars, detectVars, result, outcome>>

\* Mutant: the result pass is started whatever the mask pass's outcome.
maskPassDoneAnyway ==
    /\ pc = "maskPass"
    /\ Awaited
    /\ \E ok \in BOOLEAN :
          Spawn("result", ResultOutput, [input |-> inputPath, filter |-> resultChromaSettings], ok)
    /\ pc' = "resultPass"
    /\ UNCHANGED <<pair, calc, sessions, inputVars, fileVars, detectVars, encodeVars, error, outcome>>

\* After the mask pass: the result pass spawned, or the error thrown.
maskPassDone ==
    /\ pc = "maskPass"
    /\ Awaited
    /\ IF promise.state = "resolved"
       THEN /\ \E ok \in BOOLEAN :
                  Spawn("result", ResultOutput, [input |-> inputPath, filter |-> resultChromaSettings], ok)
            /\ pc' = "resultPass"
            /\ error' = error
       ELSE /\ error' = <<promise.value>>
            /\ pc' = "finally"
            /\ Reaped
    /\ UNCHANGED <<pair, calc, sessions, inputVars, fileVars, detectVars, encodeVars, outcome>>

\* Mutant: the result pass is not awaited; the function goes on at once.
resultPassDoneNoAwait ==
    /\ pc = "resultPass"
    /\ result' = [maskPath |-> MaskOutput, resultPath |-> ResultOutput]
    /\ pc' = "finally"
    /\ UNCHANGED <<pair, calc, sessions, inputVars, fileVars, childVars, detectVars,
                   resultSettings, maskSettings, resultChromaSettings, maskChromaSettings,
                   error, outcome>>

\* After the result pass: the ProcessedVideoResult, or the error thrown.
resultPassDone ==
    /\ pc = "resultPass"
    /\ Awaited
    /\ IF promise.state = "resolved"
       THEN /\ result' = [maskPath |-> MaskOutput, resultPath |-> ResultOutput]
            /\ error' = error
       ELSE /\ result' = result
            /\ error' = <<promise.value>>
    /\ pc' = "finally"
    /\ Reaped
    /\ UNCHANGED <<pair, calc, sessions, inputVars, fileVars, detectVars, resultSettings, maskSettings,
                   resultChromaSettings, maskChromaSettings, outcome>>

(***************************************************************************)
(* processVideo's finally block, and the end of the call.                  *)
(***************************************************************************)
\* Mutant: an unlink that fails throws out of the finally block.
cleanupTempThrows ==
    /\ pc = "finally"
    /\ IF tempInputPath # "none"
       THEN /\ Unlink(tempInputPath)
            /\ error' = IF tempInputPath \in files' THEN <<FsError("unlink")>> ELSE error
       ELSE UNCHANGED <<files, unlinked, error>>
    /\ pc' = "finallyUpload"
    /\ UNCHANGED <<pair, calc, sessions, inputVars, childVars, detectVars, encodeVars, outcome>>

\* if (tempInputPath) unlink it
cleanupTemp ==
    /\ pc = "finally"
    /\ IF tempInputPath # "none"
       THEN Unlink(tempInputPath)
       ELSE UNCHANGED <<files, unlinked>>
    /\ pc' = "finallyUpload"
    /\ UNCHANGED <<pair, calc, sessions, inputVars, childVars, detectVars, encodeVars, error, outcome>>

\* if (uploadedFile?.path) unlink it; then the response or the error
cleanupUpload ==
    /\ pc = "finallyUpload"
    /\ IF uploadedFile
       THEN Unlink(UploadPath)
       ELSE UNCHANGED <<files, unlinked>>
    /\ pc' = "done"
    /\ outcome' = IF error = <<>>
                  THEN [status |-> "ok", mask |-> result.maskPath, result |-> result.resultPath]
                  ELSE [status |-> "failed", error |-> error[1]]
    /\ UNCHANGED <<pair, calc, sessions, inputVars, childVars, detectVars, encodeVars, error>>

Next ==
    \/ processVideo
    \/ downloadVideo
    \/ extractFrame
    \/ extractFrameRun
    \/ extractFrameDone
    \/ analyzeFrame
    \/ cleanupFrame
    \/ detectionDone
    \/ buildSettings
    \/ maskPassDone
    \/ resultPassDone
    \/ cleanupTemp
    \/ cleanupUpload
    \/ ChildData
    \/ ChildError
    \/ ChildClose

Spec == Init /\ [][Next]_vars

(***************************************************************************)
(* The settings resolution on its own: two requests resolved side by side, *)
(* each as processVideo and processChromaKey resolve it.                   *)
(***************************************************************************)
ResolveRequest(d, detected) ==
    LET rs == BuildResultSettings(d, detected)
        ms == BuildMaskSettings(d, detected)
    IN  [dto |-> d, detectedColor |-> detected,
         resultSettings |-> rs, maskSettings |-> ms,
         resultChromaSettings |-> getSettings(d.colorType, rs),
         maskChromaSettings |-> getSettings(d.colorType, ms)]

\* detectedColor is set only when the request asks for detection.
DetectedFor(d) == IF AfterInput(d) = "extractFrame" THEN PairDetected ELSE {<<>>}

resolvePair ==
    /\ ~pair.resolved
    /\ \E d1 \in PairDtoSet, d2 \in PairDtoSet :
       \E det1 \in DetectedFor(d1), det2 \in DetectedFor(d2) :
          pair' = [resolved |-> TRUE, a |-> ResolveRequest(d1, det1), b |-> ResolveRequest(d2, det2)]
    /\ UNCHANGED <<pipelineVars, calc, sessions>>

NextPair == resolvePair

SpecPair == Init /\ [][NextPair]_vars

(***************************************************************************)
(* The pure functions on their own: analyzeFrameColors with the conversion *)
(* findDominantChromaColor applies to its result, and rgbToHex.            *)
(* One call per behaviour: the functions keep no state between calls.      *)
(***************************************************************************)
\* const color = await this.analyzeFrameColors(...); if (color) hex = rgbToHex(color)
sampleColor ==
    /\ calc = NoCall
    /\ \E pixels \in PixelFrames :
          LET color == analyzeFrameColors(pixels)
          IN  calc' = [op |-> "analyzeFrameColors", pixels |-> pixels, color |-> color,
                       hex |-> IF color # <<>> THEN rgbToHex(color[1]) ELSE <<>>]
    /\ UNCHANGED <<pipelineVars, pair, sessions>>

convertColor ==
    /\ calc = NoCall
    /\ \E r \in ChannelSet, g \in ChannelSet, b \in ChannelSet :
          calc' = [op |-> "rgbToHex", rgb |-> Px(r, g, b), hex |-> rgbToHex(Px(r, g, b))]
    /\ UNCHANGED <<pipelineVars, pair, sessions>>

NextCalc ==
    \/ sampleColor
    \/ convertColor

SpecCalc == Init /\ [][NextCalc]_vars

(***************************************************************************)
(* Requests in flight at the same time: each takes its session id from     *)
(* uuidv4() and runs the two passes of processChromaKey on its own paths.  *)
(***************************************************************************)
\* The session ids handed out so far; uuidv4() does not repeat one.
IdsInUse == {sessions.req[r].sessionId : r \in {q \in Requests : sessions.req[q].pc # "idle"}}

\* const sessionId = uuidv4(), up to the call of processChromaKey
startSession(r) ==
    /\ sessions.req[r].pc = "idle"
    /\ \E id \in SessionIds \ IdsInUse :
          sessions' = [sessions EXCEPT !.req[r] = [pc |-> "mask", sessionId |-> id]]
    /\ UNCHANGED <<pipelineVars, pair, calc>>

\* One pass of a request: ffmpeg -y <output>, which may or may not write the
\* file and may exit with any status.
EncodePass(r, pass, output, next) ==
    /\ sessions.req[r].pc = pass
    /\ \E ok \in BOOLEAN, wrote \in BOOLEAN :
          sessions' = [sessions EXCEPT
                          !.req[r].pc = IF ok THEN next ELSE "failed",
                          !.writes = IF wrote
                                     THEN @ \cup {[path |-> output, req |-> r, pass |-> pass]}
                                     ELSE @]
    /\ UNCHANGED <<pipelineVars, pair, calc>>

encodeMask(r) == EncodePass(r, "mask", maskOutput(sessions.req[r].sessionId), "result")

encodeResult(r) == EncodePass(r, "result", resultOutput(sessions.req[r].sessionId), "done")

NextSessions ==
    \/ \E r \in Requests : startSession(r)
    \/ \E r \in Requests : encodeMask(r)
    \/ \E r \in Requests : encodeResult(r)

SpecSessions == Init /\ [][NextSessions]_vars

TypeOK == pc \in {"idle", "downloadVideo", "extractFrame", "getVideoDuration", "runExtract",
                  "analyzeFrameColors", "cleanupFrames", "buildSettings", "maskPass",
                  "resultPass", "finally", "finallyUpload", "done"}

(***************************************************************************)
(* Properties.                                                             *)
(***************************************************************************)
\* An optional field as a value that can be compared: <<v>> or <<>>.
Get(obj, k) == IF Has(obj, k) THEN <<obj[k]>> ELSE <<>>

SameOn(d1, d2, keys) == \A k \in keys : Get(d1, k) = Get(d2, k)

Preset(colorType) ==
    IF colorType = "green" THEN GREEN_SCREEN_SETTINGS ELSE BLUE_SCREEN_SETTINGS

SettingsKeys == {"color", "similarity", "blend"}

\* C1: mask and result settings are independent.  Two requests that agree on
\* colorType, color, the detected colour, mask_similarity and mask_blend get
\* the same mask settings whatever their similarity and blend; two that agree
\* on colorType, color, the detected colour, similarity and blend get the same
\* result settings whatever their mask_* fields; and without mask_* fields the
\* mask pass has the preset's similarity and blend.
C1_MaskResultIndependent ==
    pair.resolved =>
        /\ ( /\ SameOn(pair.a.dto, pair.b.dto,
                       {"colorType", "color", "mask_similarity", "mask_blend"})
             /\ pair.a.detectedColor = pair.b.detectedColor )
           => pair.a.maskChromaSettings = pair.b.maskChromaSettings
        /\ ( /\ SameOn(pair.a.dto, pair.b.dto,
                       {"colorType", "color", "similarity", "blend"})
             /\ pair.a.detectedColor = pair.b.detectedColor )
           => pair.a.resultChromaSettings = pair.b.resultChromaSettings
        /\ \A r \in {pair.a, pair.b} :
              /\ ~Has(r.dto, "mask_similarity")
                 => r.maskChromaSettings.similarity = Preset(r.dto.colorType).similarity
              /\ ~Has(r.dto, "mask_blend")
                 => r.maskChromaSettings.blend = Preset(r.dto.colorType).blend

\* Two requests that differ only in similarity and blend, both without mask_*
\* fields, whose result settings differ.
C1_Witness ==
    /\ pair.resolved
    /\ SameOn(pair.a.dto, pair.b.dto,
              {"colorType", "color", "autoDetectColor", "mask_similarity", "mask_blend"})
    /\ pair.a.detectedColor = pair.b.detectedColor
    /\ ~Has(pair.a.dto, "mask_similarity") /\ ~Has(pair.a.dto, "mask_blend")
    /\ Has(pair.a.dto, "similarity") /\ Has(pair.b.dto, "similarity")
    /\ pair.a.dto.similarity # pair.b.dto.similarity
    /\ Has(pair.a.dto, "blend") /\ ~Has(pair.b.dto, "blend")
    /\ pair.a.resultChromaSettings # pair.b.resultChromaSettings

\* C2: getSettings returns, for each of color, similarity and blend, the
\* override's value when the field is present in the overrides and the value
\* of colorType's preset when it is absent.
C2_GetSettingsFieldwise ==
    pair.resolved =>
        \A r \in {pair.a, pair.b} :
            \A io \in { <<r.resultSettings, r.resultChromaSettings>>,
                        <<r.maskSettings, r.maskChromaSettings>> } :
                /\ DOMAIN io[2] = SettingsKeys
                /\ \A k \in SettingsKeys :
                      io[2][k] = IF Has(io[1], k) THEN io[1][k] ELSE Preset(r.dto.colorType)[k]

\* One call with similarity overridden and blend left to the preset, another
\* with no override at all.
C2_Witness ==
    /\ pair.resolved
    /\ Has(pair.a.resultSettings, "similarity")
    /\ ~Has(pair.a.resultSettings, "blend")
    /\ pair.a.resultChromaSettings.similarity # Preset(pair.a.dto.colorType).similarity
    /\ DOMAIN pair.b.maskSettings = {}
    /\ pair.b.maskChromaSettings = Preset(pair.b.dto.colorType)

\* The request asked for detection.
AutoDetect == Has(dto, "autoDetectColor") /\ dto.autoDetectColor

\* The two settings objects have been resolved (the encoding stage is reached).
Resolved == DOMAIN maskChromaSettings = SettingsKeys /\ DOMAIN resultChromaSettings = SettingsKeys

\* Two hex strings that name the same colour, letter case aside.
SameColor(x, y) == toUpperCase(x) = toUpperCase(y)

\* C3: colour precedence, the same for both passes.  The detected colour when
\* detection was requested and returned one, even if the request carries a
\* color; otherwise the request's color (the code passes it in upper case);
\* otherwise the preset colour of colorType.
C3_ColorPrecedence ==
    Resolved =>
        /\ maskChromaSettings.color = resultChromaSettings.color
        /\ IF AutoDetect /\ detectedColor # <<>>
           THEN maskChromaSettings.color = detectedColor
           ELSE IF Has(dto, "color")
                THEN SameColor(maskChromaSettings.color, dto.color)
                ELSE maskChromaSettings.color = Preset(dto.colorType).color

\* The encoding stage reached with a detected colour and a different color in
\* the request.
C3_Witness ==
    /\ pc = "maskPass"
    /\ AutoDetect
    /\ detectedColor # <<>>
    /\ Has(dto, "color")
    /\ ~SameColor(detectedColor, dto.color)
    /\ maskChromaSettings.color = detectedColor

FrameFiles == {FramePathOf(i) : i \in 1..Len(Percentages)}

\* findDominantChromaColor has returned or thrown.
DetectionOver ==
    pc \in {"buildSettings", "maskPass", "resultPass", "finally", "finallyUpload", "done"}

\* C4: when findDominantChromaColor returns or throws, every frame file
\* created during the call has been deleted or has had its deletion attempted.
C4_FramesCleaned == DetectionOver => (files \cap FrameFiles) \subseteq unlinked

\* C5: when processVideo completes, on whatever path, the deletion of the
\* staged input (the uploaded file, the downloaded file) has been attempted.
C5_InputCleaned == (pc = "done") => (files \cap {UploadPath, DownloadPath}) \subseteq unlinked

\* findDominantChromaColor is about to leave with an error (its cleanup done).
DetectionThrows == pc = "cleanupFrames" /\ framePaths = <<>> /\ error # <<>>

\* C6, as stated: detection failures are swallowed.  When detection fails, the
\* request goes on to the encoding stage without an error.
C6_DetectionFailureSwallowed ==
    [][DetectionThrows => (pc' = "buildSettings" /\ error' = <<>>)]_vars

\* C6, amended: detection failures propagate.  When detection fails, its error
\* leaves processVideo through the finally block: no settings are resolved, no
\* encoding pass is started, and the request fails with that error.
C6_DetectionFailurePropagates ==
    [][ /\ DetectionThrows
           => (pc' = "finally" /\ error' = error /\ UNCHANGED <<childVars, encodeVars>>)
        /\ (pc \in {"finally", "finallyUpload"})
           => (pc' \in {"finallyUpload", "done"} /\ error' = error
               /\ UNCHANGED <<childVars, encodeVars>>)
        /\ (pc' = "done" /\ error # <<>>)
           => outcome' = [status |-> "failed", error |-> error[1]]
      ]_vars

\* A request that failed because a sampled frame could not be decoded, with no
\* encoding pass started.
C6_Witness ==
    /\ pc = "done"
    /\ AutoDetect
    /\ outcome.status = "failed"
    /\ outcome.error = DecodeError
    /\ ~Resolved
    /\ files \cap {MaskOutput, ResultOutput} = {}

\* findDominantChromaColor is about to return nothing (its cleanup done).
DetectionInconclusive ==
    pc = "cleanupFrames" /\ framePaths = <<>> /\ error = <<>> /\ bestColor = <<>>

FallbackColor ==
    IF Has(dto, "color") THEN toUpperCase(dto.color) ELSE Preset(dto.colorType).color

\* C7: when detection completes without a colour, the request is not failed:
\* processVideo goes on to resolve the settings without an error, and both
\* passes get the request's color if there is one and the preset colour
\* otherwise.
C7_InconclusiveFallsBack ==
    [][ /\ DetectionInconclusive
           => (pc' = "buildSettings" /\ error' = <<>> /\ detectedColor' = <<>>)
        /\ (pc = "buildSettings" /\ AutoDetect /\ detectedColor = <<>>)
           => /\ maskChromaSettings'.color = FallbackColor
              /\ resultChromaSettings'.color = FallbackColor
              /\ pc' = "maskPass" \/ (pc' = "finally" /\ error' = <<FsError("mkdir")>>)
      ]_vars

\* The result pass running after a detection that sampled all three frames and
\* found no colour, with the request's color in use.
C7_Witness ==
    /\ pc = "resultPass"
    /\ AutoDetect
    /\ detectedColor = <<>>
    /\ unlinked \cap FrameFiles = FrameFiles
    /\ Has(dto, "color")
    /\ resultChromaSettings.color = toUpperCase(dto.color)

\* The process awaited is one of runFfmpegCommand's.
FfmpegChild == child.kind \in {"extract", "mask", "result"}

\* C8, as stated: runFfmpegCommand succeeds exactly when the process exits with
\* status 0, and on a non-zero exit and on a spawn failure alike its error
\* carries the exit code and the stderr text captured so far.
C8_ErrorCarriesCodeAndStderr ==
    (FfmpegChild /\ child.phase = "closed") =>
        /\ promise.state # "pending"
        /\ (promise.state = "resolved") <=> (child.spawnOk /\ child.code = <<0>>)
        /\ (promise.state = "rejected") =>
              /\ Has(promise.value, "code")
              /\ Has(promise.value, "stderr")
              /\ promise.value.code = child.code[1]
              /\ promise.value.stderr = child.text

\* C8, amended: runFfmpegCommand succeeds exactly when the process exits with
\* status 0; on a non-zero exit its error carries the exit code and the stderr
\* text captured so far; on a spawn failure its error is the spawn error, with
\* neither; and the promise is settled once: not before an event of the
\* process, settled when the process has closed, and the 'close' that follows
\* an 'error' leaves the spawn error in place.
C8_RunFfmpegCommandSettles ==
    FfmpegChild =>
        /\ (child.phase \in {"running", "spawnFailed"}) => promise.state = "pending"
        /\ (child.phase = "closed") =>
              /\ promise.state # "pending"
              /\ (promise.state = "resolved") <=> (child.spawnOk /\ child.code = <<0>>)
        /\ (child.phase = "closed" /\ child.spawnOk /\ child.code # <<0>>) =>
              /\ promise.state = "rejected"
              /\ promise.value = FfmpegExitError(child.code[1], child.text)
        /\ (child.phase \in {"errored", "closed"} /\ ~child.spawnOk) =>
              /\ promise.state = "rejected"
              /\ promise.value = SpawnError

\* The mask pass closed with status 1 after two chunks of stderr.
C8_Witness ==
    /\ child.kind = "mask"
    /\ child.phase = "closed"
    /\ child.code = <<1>>
    /\ child.n = 2
    /\ promise.state = "rejected"
    /\ promise.value.stderr = child.text
    /\ Len(child.text) > 0

\* C9: getVideoDuration never fails and returns a positive number, which is 5
\* whenever the exit is non-zero, the spawn failed or the output does not
\* parse to a usable (positive) duration.
C9_DurationPositive ==
    (child.kind = "probe" /\ child.phase = "closed") =>
        /\ promise.state = "resolved"
        /\ IsPositive(promise.value)
        /\ ( \/ ~child.spawnOk
             \/ child.code # <<0>>
             \/ ~IsPositive(parseFloat(trim(child.text))) )
           => promise.value = Num(FallbackDuration)

\* The hex values the analysed frames yielded.
VotedHexes == {votes[i] : i \in 1..Len(votes)} \ {<<>>}

VoteCount(hex) == Cardinality({i \in 1..Len(votes) : votes[i] = hex})

FirstVote(hex) == CHOOSE i \in 1..Len(votes) : votes[i] = hex /\ \A j \in 1..(i - 1) : votes[j] # hex

\* The loop over the three samples has run to its end and the best colour is chosen.
DetectionReturns == pc = "cleanupFrames" /\ error = <<>>

\* C10: findDominantChromaColor returns the hex value detected in the largest
\* number of the three sampled frames, nothing when no frame yielded a colour,
\* and among hex values with the largest count the one first detected in the
\* earliest frame.
C10_MajorityFirstSeen ==
    DetectionReturns =>
        /\ Len(votes) = Len(Percentages)
        /\ IF VotedHexes = {}
           THEN bestColor = <<>>
           ELSE /\ bestColor \in VotedHexes
                /\ \A hex \in VotedHexes :
                      /\ VoteCount(hex) <= VoteCount(bestColor)
                      /\ (VoteCount(hex) = VoteCount(bestColor))
                         => FirstVote(bestColor) <= FirstVote(hex)

\* A tie: the first frame yielded nothing, the second and the third different
\* colours, and the second frame's colour is returned.
C10_Witness ==
    /\ DetectionReturns
    /\ Len(votes) = 3
    /\ votes[1] = <<>>
    /\ votes[2] # <<>>
    /\ votes[3] # <<>>
    /\ votes[2] # votes[3]
    /\ bestColor = votes[2]

\* The pixel is neither all channels below 30 nor all channels above 240.
NonExtreme(p) ==
    /\ ~(p.r < DarkLimit /\ p.g < DarkLimit /\ p.b < DarkLimit)
    /\ ~(p.r > LightLimit /\ p.g > LightLimit /\ p.b > LightLimit)

\* The bucket of width 8 a pixel falls in.
BucketOf(p) ==
    [r |-> p.r - (p.r % quantizeFactor), g |-> p.g - (p.g % quantizeFactor),
     b |-> p.b - (p.b % quantizeFactor)]

CountedPixels(pixels) == {i \in 1..Len(pixels) : NonExtreme(pixels[i])}

BucketCount(pixels, bucket) ==
    Cardinality({i \in CountedPixels(pixels) : BucketOf(pixels[i]) = bucket})

AnalyzeCalled == calc.op = "analyzeFrameColors"

\* C11: analyzeFrameColors counts exactly the pixels that are neither all
\* channels below 30 nor all channels above 240, and returns a quantized bucket
\* with the highest count over them; it returns nothing exactly when no pixel
\* of the frame is counted.
C11_DominantBucket ==
    AnalyzeCalled =>
        IF CountedPixels(calc.pixels) = {}
        THEN calc.color = <<>>
        ELSE /\ calc.color # <<>>
             /\ \E i \in CountedPixels(calc.pixels) : BucketOf(calc.pixels[i]) = calc.color[1]
             /\ \A j \in CountedPixels(calc.pixels) :
                    BucketCount(calc.pixels, BucketOf(calc.pixels[j]))
                        <= BucketCount(calc.pixels, calc.color[1])

\* A frame of four pixels: the first excluded, then one pixel of a bucket that
\* loses against the two pixels of another bucket.
C11_Witness ==
    /\ AnalyzeCalled
    /\ Len(calc.pixels) = 4
    /\ ~NonExtreme(calc.pixels[1])
    /\ NonExtreme(calc.pixels[2])
    /\ calc.color # <<>>
    /\ BucketOf(calc.pixels[2]) # calc.color[1]
    /\ BucketCount(calc.pixels, calc.color[1]) = 2

\* C12, as stated: the colour analyzeFrameColors returns never has all three
\* channels below 30 and never has all three above 240.
C12_ReturnedNonExtreme ==
    (AnalyzeCalled /\ calc.color # <<>>) => NonExtreme(calc.color[1])

\* C12, amended: the colour returned is the bucket of a pixel that is neither
\* all channels below 30 nor all above 240; it never has all three channels
\* above 240, and never all three below 24 (the bucket of 30 and 31).
C12_ReturnedBucketOfNonExtreme ==
    (AnalyzeCalled /\ calc.color # <<>>) =>
        LET c == calc.color[1]
            floor == DarkLimit - (DarkLimit % quantizeFactor)
        IN  /\ \E i \in 1..Len(calc.pixels) :
                   NonExtreme(calc.pixels[i]) /\ BucketOf(calc.pixels[i]) = c
            /\ ~(c.r > LightLimit /\ c.g > LightLimit /\ c.b > LightLimit)
            /\ ~(c.r < floor /\ c.g < floor /\ c.b < floor)

\* A counted pixel just over the dark limit, returned as (24, 24, 24).
C12_Witness ==
    /\ AnalyzeCalled
    /\ calc.pixels = <<Px(29, 30, 29)>>
    /\ calc.color = <<Px(24, 24, 24)>>

UpperHexDigits ==
    <<"0", "1", "2", "3", "4", "5", "6", "7", "8", "9", "A", "B", "C", "D", "E", "F">>

UpperHexChars == {UpperHexDigits[i] : i \in 1..16}

\* Exactly six upper-case hexadecimal digits.
IsUpperHex6(s) == Len(s) = 6 /\ \A i \in 1..6 : s[i] \in UpperHexChars

HexDigitValue(c) == CHOOSE d \in 0..15 : UpperHexDigits[d + 1] = c

\* The value of the k-th two-digit channel of a colour of six hex digits.
HexChannel(s, k) == 16 * HexDigitValue(s[2 * k - 1]) + HexDigitValue(s[2 * k])

IsBucketValue(v) == v \in 0..248 /\ v % quantizeFactor = 0

\* C13: every colour produced by detection is a quantization bucket.  Each
\* channel of the RGB analyzeFrameColors returns is floor(v/8)*8 for the
\* channel value v of a counted pixel, a multiple of 8 in 0..248, and each
\* channel of the hex colour findDominantChromaColor makes of it is that
\* multiple of 8.
C13_DetectedIsBucket ==
    (AnalyzeCalled /\ calc.color # <<>>) =>
        LET c == calc.color[1]
        IN  /\ IsBucketValue(c.r) /\ IsBucketValue(c.g) /\ IsBucketValue(c.b)
            /\ \E i \in CountedPixels(calc.pixels) :
                   LET p == calc.pixels[i]
                   IN  /\ c.r = (p.r \div 8) * 8
                       /\ c.g = (p.g \div 8) * 8
                       /\ c.b = (p.b \div 8) * 8
            /\ IsUpperHex6(calc.hex)
            /\ HexChannel(calc.hex, 1) = c.r
            /\ HexChannel(calc.hex, 2) = c.g
            /\ HexChannel(calc.hex, 3) = c.b

\* Pixels (3, 250, 5) and (0, 255, 0) detected as 00F800.
C13_Witness ==
    /\ AnalyzeCalled
    /\ calc.pixels = <<Px(3, 250, 5), Px(0, 255, 0)>>
    /\ calc.color = <<Px(0, 248, 0)>>
    /\ calc.hex = <<"0", "0", "F", "8", "0", "0">>

Clamp(n) == IF n < 0 THEN 0 ELSE IF n > 255 THEN 255 ELSE n

TwoHex(n) == <<UpperHexDigits[(n \div 16) + 1], UpperHexDigits[(n % 16) + 1]>>

\* C14: rgbToHex is total over integer triples.  For all integers r, g, b,
\* below 0 and above 255 too, it returns exactly six upper-case hexadecimal
\* digits: the two-digit hex of each channel clamped to 0..255, in the order
\* r, g, b.
C14_RgbToHexTotal ==
    (calc.op = "rgbToHex") =>
        /\ IsUpperHex6(calc.hex)
        /\ calc.hex = TwoHex(Clamp(calc.rgb.r)) \o TwoHex(Clamp(calc.rgb.g))
                           \o TwoHex(Clamp(calc.rgb.b))

\* A negative channel, one that needs a letter digit, and one above 255.
C14_Witness ==
    /\ calc.op = "rgbToHex"
    /\ calc.rgb = Px(-1, 171, 1000)
    /\ calc.hex = <<"0", "0", "A", "B", "F", "F">>

\* C15: in every request that reaches the encoding stage, the color of the
\* mask settings and of the result settings is exactly six upper-case
\* hexadecimal digits, whether it is the detected colour, the request's color
\* (validated, in any letter case) or the preset's.
C15_ColorUpperHex6 ==
    Resolved =>
        /\ IsUpperHex6(maskChromaSettings.color)
        /\ IsUpperHex6(resultChromaSettings.color)

\* The mask pass started with the request's color, sent with lower-case
\* letters, in upper case.
C15_Witness ==
    /\ pc = "maskPass"
    /\ detectedColor = <<>>
    /\ Has(dto, "color")
    /\ ~IsUpperHex6(dto.color)
    /\ maskChromaSettings.color = toUpperCase(dto.color)
    /\ child.args.filter.color = maskChromaSettings.color

\* The input resolution of processVideo fails in this step: no input at all,
\* or downloadVideo throws (other than for the mkdir of its own directory).
InputResolutionFails ==
    /\ pc \in {"idle", "downloadVideo"}
    /\ error' # <<>>
    /\ error' # <<FsError("mkdir")>>

\* C16: an input resolution failure is a client error and stops the pipeline.
\* Without an upload and a videoUrl, or when the download of videoUrl fails,
\* processVideo fails with a bad-request error that carries a message, and no
\* detection and no encoding pass is started.
C16_InputFailureIsBadRequest ==
    [][ /\ InputResolutionFails
           => /\ error'[1].name = "BadRequestException"
              /\ Has(error'[1], "message")
              /\ pc' = "finally"
              /\ child' = NoChild
        /\ (pc \in {"finally", "finallyUpload"})
           => (pc' \in {"finallyUpload", "done"} /\ error' = error /\ child' = NoChild)
      ]_vars

\* C17: a failure to delete a temporary file never changes the outcome.  A
\* cleanup step leaves the error in flight, the colour chosen and the result
\* as they are whether its unlink succeeds or fails; it goes on to the next
\* file (the remaining frames, then the end of findDominantChromaColor; the
\* downloaded input, then the uploaded input); and processVideo ends with the
\* result or the error it had before the cleanup.
C17_CleanupFailureIgnored ==
    [][ /\ (pc \in {"cleanupFrames", "finally", "finallyUpload"})
           => (error' = error /\ result' = result)
        /\ (pc = "cleanupFrames" /\ framePaths # <<>>)
           => /\ pc' = "cleanupFrames"
              /\ Head(framePaths) \in unlinked'
              /\ framePaths' = Tail(framePaths)
              /\ bestColor' = bestColor
        /\ (pc = "cleanupFrames" /\ framePaths = <<>>)
           => /\ pc' = IF error = <<>> THEN "buildSettings" ELSE "finally"
              /\ detectedColor' = IF error = <<>> THEN bestColor ELSE detectedColor
        /\ (pc = "finally")
           => /\ pc' = "finallyUpload"
              /\ (tempInputPath # "none") => tempInputPath \in unlinked'
        /\ (pc = "finallyUpload")
           => /\ pc' = "done"
              /\ uploadedFile => UploadPath \in unlinked'
              /\ outcome' = IF error = <<>>
                            THEN [status |-> "ok", mask |-> result.maskPath,
                                  result |-> result.resultPath]
                            ELSE [status |-> "failed", error |-> error[1]]
      ]_vars

\* A request that succeeded although the unlink of its first frame and of its
\* downloaded input failed, with the later frames unlinked all the same.
C17_Witness ==
    /\ pc = "done"
    /\ outcome.status = "ok"
    /\ FrameFiles \subseteq unlinked
    /\ FramePathOf(1) \in files
    /\ FramePathOf(3) \notin files
    /\ DownloadPath \in files \cap unlinked

\* C18: output files never collide.  The mask path of a request is
\* <outputDir>/<sessionId>_mask.webm and its result path is
\* <outputDir>/<sessionId>_result.webm, two distinct paths; requests with their
\* own session ids have pairwise distinct output paths; and no file is written
\* by two passes, of one request or of two.
C18_OutputsDistinct ==
    /\ \A r \in Requests :
          (sessions.req[r].pc # "idle") =>
              LET id == sessions.req[r].sessionId
              IN  /\ maskOutput(id) = OutputDir \o <<"/">> \o id \o MaskSuffix
                  /\ resultOutput(id) = OutputDir \o <<"/">> \o id \o ResultSuffix
                  /\ maskOutput(id) # resultOutput(id)
                  /\ \A q \in Requests \ {r} :
                         (sessions.req[q].pc # "idle") =>
                             {maskOutput(id), resultOutput(id)}
                                 \cap {maskOutput(sessions.req[q].sessionId),
                                       resultOutput(sessions.req[q].sessionId)} = {}
    /\ \A w1 \in sessions.writes, w2 \in sessions.writes :
          (w1.path = w2.path) => (w1 = w2)

\* Two requests that have both written their mask and their result.
C18_Witness ==
    /\ Cardinality(sessions.writes) = 4
    /\ \A r \in {1, 2} : sessions.req[r].pc = "done"
    /\ Cardinality({w.path : w \in sessions.writes}) = 4

\* A process is spawned in this step.
Spawns(kind) ==
    /\ child' # child
    /\ child'.kind = kind
    /\ child'.phase \in {"running", "spawnFailed"}
    /\ child'.n = 0

\* The process awaited has closed after exiting with status 0.
ExitedZero == child.phase = "closed" /\ child.spawnOk /\ child.code = <<0>>

\* C19: in processChromaKey the binary is invoked at most once for the mask
\* pass and at most once for the result pass, with no retry: the mask pass is
\* spawned on entry only and the result pass only when the mask pass has
\* exited with status 0, and neither stage is entered again.  If the mask pass
\* fails, its error is the outcome and the result pass is not started.  The
\* ProcessedVideoResult exists only when both passes exited with status 0;
\* otherwise the result pass's error is the outcome.
C19_TwoPassesNoRetry ==
    [][ /\ Spawns("mask") => (pc = "buildSettings" /\ pc' = "maskPass")
        /\ Spawns("result")
           => (pc = "maskPass" /\ pc' = "resultPass" /\ child.kind = "mask" /\ ExitedZero)
        /\ (pc = "maskPass")
           => /\ pc' \in {"maskPass", "resultPass", "finally"}
              /\ (pc' = "resultPass") => (ExitedZero /\ Spawns("result") /\ error' = <<>>)
              /\ (pc' = "finally")
                 => /\ child.phase = "closed" /\ ~ExitedZero
                    /\ error' = <<IF child.spawnOk
                                  THEN FfmpegExitError(child.code[1], child.text)
                                  ELSE SpawnError>>
                    /\ child' = NoChild
                    /\ result' = Empty
        /\ (pc = "resultPass")
           => /\ pc' \in {"resultPass", "finally"}
              /\ (pc' = "finally")
                 => /\ child.kind = "result" /\ child.phase = "closed"
                    /\ IF ExitedZero
                       THEN /\ result' = [maskPath |-> MaskOutput, resultPath |-> ResultOutput]
                            /\ error' = <<>>
                       ELSE /\ result' = Empty
                            /\ error' = <<IF child.spawnOk
                                          THEN FfmpegExitError(child.code[1], child.text)
                                          ELSE SpawnError>>
        /\ (pc \in {"finally", "finallyUpload", "done"})
           => (pc' \in {"finally", "finallyUpload", "done"} /\ child' = NoChild
               /\ result' = result)
        /\ (result' # Empty) => error' = <<>>
      ]_vars

\* The result pass has exited with status 1 after a mask pass that succeeded.
C19_Witness ==
    /\ pc = "resultPass"
    /\ child.kind = "result"
    /\ child.phase = "closed"
    /\ child.code = <<1>>
    /\ promise.state = "rejected"
    /\ result = Empty

\* C20: in findDominantChromaColor the winning colour is chosen only after
\* the three samples (5%, 25%, 50%, in that order) have each gone through
\* duration probe, extraction and analysis; a process is spawned only when
\* the one before it has closed, so at most one is in flight; and no colour is
\* returned from a call in which a sample's extraction or analysis failed.
C20_AllSamplesThenChoice ==
    [][ /\ (pc = "extractFrame")
           => (pc' = "getVideoDuration" /\ Spawns("probe") /\ sample' = sample
               /\ Len(votes) = sample - 1)
        /\ (pc = "getVideoDuration" /\ pc' # pc)
           => (pc' = "runExtract" /\ child.kind = "probe" /\ child.phase = "closed"
               /\ Spawns("extract") /\ sample' = sample)
        /\ (pc = "runExtract" /\ pc' # pc)
           => /\ child.kind = "extract" /\ child.phase = "closed"
              /\ pc' = IF ExitedZero THEN "analyzeFrameColors" ELSE "cleanupFrames"
              /\ (pc' = "cleanupFrames") => error' # <<>>
              /\ sample' = sample
        /\ (pc = "analyzeFrameColors")
           => \/ pc' = "extractFrame" /\ sample < Len(Percentages) /\ sample' = sample + 1
                 /\ error' = <<>> /\ bestColor' = <<>>
              \/ pc' = "cleanupFrames" /\ error' # <<>> /\ bestColor' = <<>>
              \/ pc' = "cleanupFrames" /\ error' = <<>> /\ sample = Len(Percentages)
                 /\ Len(votes') = Len(Percentages)
        /\ (\E kind \in {"probe", "extract", "mask", "result"} : Spawns(kind))
           => child.phase \in {"none", "closed"}
        /\ (bestColor' # bestColor /\ bestColor' # <<>>)
           => (pc = "analyzeFrameColors" /\ sample = Len(Percentages)
               /\ Len(votes') = Len(Percentages) /\ error' = <<>>)
        /\ (pc = "cleanupFrames" /\ error # <<>>)
           => (bestColor = <<>> /\ detectedColor' = <<>>)
        /\ (detectedColor' # detectedColor /\ detectedColor' # <<>>)
           => (pc = "cleanupFrames" /\ error = <<>> /\ Len(votes) = Len(Percentages)
               /\ detectedColor' = bestColor)
      ]_vars

\* The colour chosen after three analysed frames, the first frame's colour.
C20_Witness ==
    /\ pc = "cleanupFrames"
    /\ error = <<>>
    /\ Len(votes) = 3
    /\ votes[1] # <<>>
    /\ bestColor = votes[1]
    /\ votes[3] # votes[1]

StagedInputs == {UploadPath, DownloadPath}

\* C21: the staged input of a request is never deleted while a process of the
\* request that reads it is running or still to be started.  Its unlink is
\* called only in processVideo's finally block, after processChromaKey has
\* returned or the pipeline has failed, with no process of the request left;
\* and once it has been called no process is spawned.
C21_InputOutlivesReaders ==
    [][ /\ ((unlinked' \ unlinked) \cap StagedInputs # {})
           => /\ (unlinked' \ unlinked) = {inputPath}
              /\ pc \in {"finally", "finallyUpload"}
              /\ child = NoChild
              /\ (result # Empty \/ error # <<>>)
        /\ (unlinked \cap StagedInputs # {})
           => /\ child' = NoChild
              /\ pc' \in {"finallyUpload", "done"}
      ]_vars

\* A request that sampled three frames from its downloaded input and ran both
\* passes on it, and has then deleted it.
C21_Witness ==
    /\ pc = "finallyUpload"
    /\ inputPath = DownloadPath
    /\ DownloadPath \in unlinked
    /\ DownloadPath \notin files
    /\ AutoDetect
    /\ detectedColor # <<>>
    /\ result # Empty
    /\ error = <<>>

====
